---- MODULE Spec2Model ----
(***************************************************************************)
(* Model of tools/json-to-pdf.ts: the standalone JSON-to-PDF tool.         *)
(* The module-level script (argument parsing, validation, input read,     *)
(* override merge) runs first, then main() drives the Vite dev server,     *)
(* the browser and the page, and finally cleans up.                        *)
(*                                                                         *)
(* Optional JavaScript values (undefined / absent) are sequences of        *)
(* length at most one: << >> is undefined, <<v>> is the value v.           *)
(* Lengths that can be fractional are kept in units of 1/PxScale pixel.    *)
(***************************************************************************)
EXTENDS Integers, Sequences, FiniteSets, TLC

\* ------------------------------------------------------------------------
\* Optional values
\* ------------------------------------------------------------------------
None == << >>

Some(v) == <<v>>

\* a ?? d
Coalesce(opt, d) == IF opt = None THEN d ELSE opt[1]

\* JavaScript truthiness of an optional string (undefined and "" are falsy)
Truthy(opt) == opt # None /\ opt[1] # ""

Max(a, b) == IF a >= b THEN a ELSE b

\* ------------------------------------------------------------------------
\* Program constants
\* ------------------------------------------------------------------------
PAGE_DIMENSIONS ==
    [f \in {"a4", "letter", "free-form"} |->
        IF f = "letter" THEN [width |-> 816, height |-> 1056]
                        ELSE [width |-> 794, height |-> 1123]]

PRINT_MARGIN_TEMPLATES ==
    {"azurill", "bronzor", "kakuna", "lapras", "onyx", "pikachu", "rhyhorn"}

VALID_TEMPLATES ==
    {"azurill", "bronzor", "chikorita", "ditgar", "ditto", "gengar", "glalie",
     "kakuna", "lapras", "leafish", "onyx", "pikachu", "rhyhorn"}

VALID_FORMATS == {"a4", "letter", "free-form"}

DefaultTemplate == "onyx"

DefaultFormat == "a4"

DefaultMarginX == 14

DefaultMarginY == 12

StartTimeoutMs == 60000

PollTimeoutMs == 15000

FetchTimeoutMs == 2000

RetryIntervalMs == 300

PxScale == 4

\* ------------------------------------------------------------------------
\* Bounds of the model
\* ------------------------------------------------------------------------
\* raw margin stored in the payload when it stores one
RawMargin == 50

\* granularity of the passage of time while the server is starting
TickMs == 20000

\* number of output chunks the server writes at most
MaxChunks == 2

\* ------------------------------------------------------------------------
\* Input domains
\* ------------------------------------------------------------------------
\* a print-margin template, a valid one outside that set, an unknown one
TemplateNames == {"pikachu", "chikorita", "foo"}

FormatNames == {"letter", "free-form", "legal"}

OptOf(S) == {None} \cup {Some(v) : v \in S}

PageSettings ==
    [format : OptOf(FormatNames \ {"free-form"}),
     marginX : {None, Some(RawMargin)},
     marginY : {None, Some(RawMargin)}]

Metadata ==
    [template : OptOf(TemplateNames \ {"chikorita"}), page : OptOf(PageSettings)]

\* what JSON.parse yields: null, or an object with or without metadata
Payloads ==
    {[isNull |-> TRUE, metadata |-> None]}
        \cup [isNull : {FALSE}, metadata : OptOf(Metadata)]

Values ==
    [template : OptOf((TemplateNames \ {"pikachu"}) \cup {""}),
     format : OptOf(FormatNames \ {"letter"}),
     help : BOOLEAN]

\* PRINTER_ENDPOINT values: a WebSocket URL, an HTTP URL, not a URL at all
Endpoints == {"ws://remote", "http://remote", "remote"}

\* executable paths: the CHROME_PATH value and the platform's candidates
ChromePathValue == "/opt/chrome"

Candidates(platform) ==
    CASE platform = "darwin" ->
           <<"/Applications/Google Chrome.app/Contents/MacOS/Google Chrome",
             "/Applications/Chromium.app/Contents/MacOS/Chromium",
             "/Applications/Google Chrome Canary.app/Contents/MacOS/Google Chrome Canary",
             "/Applications/Brave Browser.app/Contents/MacOS/Brave Browser",
             "/Applications/Microsoft Edge.app/Contents/MacOS/Microsoft Edge">>
      [] platform = "linux" ->
           <<"/usr/bin/google-chrome",
             "/usr/bin/google-chrome-stable",
             "/usr/bin/chromium",
             "/usr/bin/chromium-browser",
             "/snap/bin/chromium">>
      [] platform = "win32" ->
           <<"C:/Program Files/Google/Chrome/Application/chrome.exe",
             "C:/Program Files (x86)/Google/Chrome/Application/chrome.exe",
             "/Google/Chrome/Application/chrome.exe",
             "C:/Program Files/Microsoft/Edge/Application/msedge.exe">>
      [] OTHER -> << >>

\* the environment of a run: variables, platform, files that exist on disk
Environments ==
    [PRINTER_ENDPOINT : OptOf(Endpoints),
     CHROME_PATH : {None, Some(ChromePathValue)},
     platform : {"linux"},
     disk : {{}, {ChromePathValue}, {"/usr/bin/chromium", "/snap/bin/chromium"}}]

\* every way of acquiring the browser: any endpoint value (the empty string
\* included), CHROME_PATH set or not, any platform, any files on disk
AnyEndpoints ==
    Endpoints \cup {"wss://remote", "https://remote", ""}

BrowserEnvironments ==
    [PRINTER_ENDPOINT : OptOf(AnyEndpoints),
     CHROME_PATH : {None, Some(ChromePathValue), Some("")},
     platform : {"linux", "darwin", "freebsd"},
     disk : {{},
             {ChromePathValue},
             {"/usr/bin/chromium", "/snap/bin/chromium"},
             {ChromePathValue, "/usr/bin/google-chrome-stable",
              "/Applications/Brave Browser.app/Contents/MacOS/Brave Browser",
              "/Applications/Chromium.app/Contents/MacOS/Chromium"}}]

\* remote over a socket, remote with an unparsable endpoint, local with and
\* without an executable on disk
RunEnvironments ==
    {e \in Environments :
        /\ e.CHROME_PATH = None
        /\ \/ e.PRINTER_ENDPOINT \in {Some("ws://remote"), Some("remote")}
                 /\ e.disk = {}
           \/ e.PRINTER_ENDPOINT = None /\ e.disk # {ChromePathValue}}

\* ------------------------------------------------------------------------
\* State
\* ------------------------------------------------------------------------
VARIABLES
    values,        \* parsed options: template, format, help
    positionals,   \* number of positional arguments
    resumeData,    \* the parsed payload, once read
    template,      \* effective template, once resolved
    format,        \* effective page format, once resolved
    pc,            \* position of the script / of main()
    exitCode,      \* process exit code, once the process has ended
    viteChild,     \* the server process: state, exit code, kill() calls
    output,        \* accumulated stdout+stderr text of the server
    chunks,        \* number of output chunks received so far
    startPromise,  \* the promise returned by startViteServer
    timeout,       \* the 60 s start timer
    now,           \* Date.now(), in ms
    spawnedAt,     \* value of now when the server was spawned
    start,         \* waitForServer: value of now when polling began
    fetches,       \* waitForServer: [count, responded, endedAt] of the attempts
    error,         \* the error main() is failing with, if any
    env,           \* the environment, once main() has read it
    connectOptions,\* options passed to puppeteer.connect
    browser,       \* the browser handle: state, mode, close() calls
    page,          \* the page: state, injected payload, viewport, url
    fontWarning,   \* whether the font wait timed out
    dom,           \* the document in the page, once loaded
    marginX,       \* computed horizontal margin, px
    marginY,       \* computed vertical margin, px
    contentHeight, \* result of the measurement pass, 1/PxScale px, or null
    pdf,           \* the options page.pdf() was called with
    written,       \* number of times the output file was written
    calls,         \* number of times main() has called each operation
    firstPass      \* the document before, and the results of, an earlier
                   \* measurement pass that is being repeated

configVars == <<values, positionals, resumeData, template, format>>

serverVars == <<viteChild, output, chunks, startPromise, timeout, spawnedAt>>

browserVars == <<env, connectOptions, browser>>

\* the state of main() past the server start, error excepted
pageVars == <<page, fontWarning, dom, marginX, marginY, contentHeight, pdf,
              written>>

runVars == <<start, fetches, env, connectOptions, browser, pageVars>>

vars == <<values, positionals, resumeData, template, format, pc, exitCode,
          viteChild, output, chunks, startPromise, timeout, now, spawnedAt,
          start, fetches, error, env, connectOptions, browser, page,
          fontWarning, dom, marginX, marginY, contentHeight, pdf, written,
          calls, firstPass>>

\* the operations of main(), the reachability fetch and the cleanup excepted
Operations ==
    {"spawn", "waitForServer", "import", "findSystemChrome", "console.error",
     "connect", "launch", "newPage",
     "evaluateOnNewDocument", "setViewport", "goto", "waitForFonts",
     "evaluate", "pdf", "pageClose", "writeFile"}

\* calls after one more call of op
Called(op) == [calls EXCEPT ![op] = @ + 1]

\* ------------------------------------------------------------------------
\* The module-level script: arguments, validation, input, overrides
\* ------------------------------------------------------------------------
\* process.exit(code)
Exit(code) ==
    /\ pc' = "exited"
    /\ exitCode' = Some(code)

\* if (values.help || positionals.length === 0) { printUsage(); exit }
ParseArgs ==
    /\ pc = "parseArgs"
    /\ IF values.help \/ positionals = 0
         THEN Exit(IF values.help THEN 0 ELSE 1)
         ELSE pc' = "validate" /\ UNCHANGED exitCode
    /\ UNCHANGED <<calls, firstPass, configVars, serverVars, now, error,
                   runVars>>

\* Validate CLI options
ValidateOptions ==
    /\ pc = "validate"
    /\ IF Truthy(values.template) /\ values.template[1] \notin VALID_TEMPLATES
         THEN Exit(1)
         ELSE IF Truthy(values.format) /\ values.format[1] \notin VALID_FORMATS
                THEN Exit(1)
                ELSE pc' = "read" /\ UNCHANGED exitCode
    /\ UNCHANGED <<calls, firstPass, configVars, serverVars, now, error,
                   runVars>>

\* Read and validate JSON: readFileSync + JSON.parse, exit 1 when either throws
ReadInput(payloads) ==
    /\ pc = "read"
    /\ \/ /\ Exit(1)
          /\ UNCHANGED resumeData
       \/ /\ \E data \in payloads : resumeData' = Some(data)
          /\ pc' = "configure"
          /\ UNCHANGED exitCode
    /\ UNCHANGED <<calls, firstPass, values, positionals, template, format,
                   serverVars, now, error, runVars>>

\* Apply CLI overrides to metadata (mutates the payload in place)
ApplyOverrides(data, opts) ==
    IF data.metadata = None
      THEN data
      ELSE LET metadata == data.metadata[1]
               withTemplate ==
                   IF Truthy(opts.template)
                     THEN [metadata EXCEPT !.template = opts.template]
                     ELSE metadata
               withFormat ==
                   IF Truthy(opts.format) /\ withTemplate.page # None
                     THEN [withTemplate EXCEPT
                             !.page = Some([withTemplate.page[1] EXCEPT
                                              !.format = opts.format])]
                     ELSE withTemplate
           IN  [data EXCEPT !.metadata = Some(withFormat)]

\* const pageSettings = metadata?.page
PageSettingsOf(data) ==
    IF data.metadata = None THEN None ELSE data.metadata[1].page

\* String(metadata?.template ?? "onyx")
ResolveTemplate(data) ==
    IF data.metadata = None
      THEN DefaultTemplate
      ELSE Coalesce(data.metadata[1].template, DefaultTemplate)

\* String(pageSettings?.format ?? "a4")
ResolveFormat(data) ==
    IF PageSettingsOf(data) = None
      THEN DefaultFormat
      ELSE Coalesce(PageSettingsOf(data)[1].format, DefaultFormat)

\* lines 172-189; reading resumeData.metadata of a null payload throws, and
\* the uncaught exception ends the process with code 1
Configure ==
    /\ pc = "configure"
    /\ IF resumeData[1].isNull
         THEN /\ Exit(1)
              /\ UNCHANGED <<resumeData, template, format>>
         ELSE LET merged == ApplyOverrides(resumeData[1], values)
              IN  /\ resumeData' = Some(merged)
                  /\ template' = Some(ResolveTemplate(merged))
                  /\ format' = Some(ResolveFormat(merged))
                  /\ pc' = "main"
                  /\ UNCHANGED exitCode
    /\ UNCHANGED <<calls, firstPass, values, positionals, serverVars, now,
                   error, runVars>>

\* ------------------------------------------------------------------------
\* startViteServer: spawn, ready-URL detection, timer, error and exit
\* ------------------------------------------------------------------------
\* Output text is a sequence of tokens: "H" is the scheme with "://", "a" a
\* host character, ":" a colon, "1" a digit, " " whitespace, "'" a quote.
IsDigit(c) == c = "1"

IsSpace(c) == c = " "

\* the j at which the lazy [^\s]+? of a match starting at i stops: the least
\* colon followed by a digit, with one or more non-space tokens before it
HostEnds(text, i) ==
    {j \in (i + 2)..(Len(text) - 1) :
        /\ text[j] = ":"
        /\ IsDigit(text[j + 1])
        /\ \A k \in (i + 1)..(j - 1) : ~IsSpace(text[k])}

MatchesAt(text, i) == text[i] = "H" /\ HostEnds(text, i) # {}

Least(S) == CHOOSE x \in S : \A y \in S : x <= y

\* the greedy \d+ after the colon at j runs to the last digit of the run
DigitsEnd(text, j) ==
    Least({e \in (j + 1)..Len(text) :
             e = Len(text) \/ ~IsDigit(text[e + 1])})

\* output.match(/https?:\/\/[^\s]+?:\d+/): the leftmost match, or none
Match(text) ==
    LET starts == {i \in 1..Len(text) : MatchesAt(text, i)}
    IN  IF starts = {}
          THEN None
          ELSE LET i == Least(starts)
                   j == Least(HostEnds(text, i))
               IN  Some(SubSeq(text, i, DigitsEnd(text, j)))

IsQuote(c) == c = "'"

NotQuote(c) == ~IsQuote(c)

\* match[0].replace(/['"]/g, "")
StripQuotes(text) == SelectSeq(text, NotQuote)

\* clearTimeout(timeout)
ClearTimeout == IF timeout = "armed" THEN "cleared" ELSE timeout

\* resolvePromise(v) / reject(e): only the first settlement counts
Resolve(p, url) ==
    IF p.state = "pending"
      THEN [state |-> "resolved", url |-> url, err |-> ""]
      ELSE p

\* Reject overriding a promise that has settled
RejectAlways(p, err) == [state |-> "rejected", url |-> << >>, err |-> err]

Reject(p, err) ==
    IF p.state = "pending"
      THEN [state |-> "rejected", url |-> << >>, err |-> err]
      ELSE p

\* main() suspended on a promise that has settled resumes before any other
\* event is handled
MainReady == pc = "awaitStart" /\ startPromise.state # "pending"

\* the start timer is due
TimerDue == timeout = "armed" /\ now - spawnedAt >= StartTimeoutMs

\* the event loop may pick up an I/O event of the server
CanHandleEvent ==
    /\ pc \notin {"parseArgs", "validate", "read", "configure", "main", "exited"}
    /\ ~MainReady
    /\ ~TimerDue

\* main(): const port = ...; startViteServer(port) up to the await.
\* spawn() either starts the process or fails (the error event follows).
SpawnServer ==
    /\ pc = "main"
    /\ \E ok \in BOOLEAN :
         viteChild' = [state |-> IF ok THEN "running" ELSE "spawnError",
                       code |-> None, kills |-> 0]
    /\ output' = << >>
    /\ startPromise' = [state |-> "pending", url |-> << >>, err |-> ""]
    /\ timeout' = "armed"
    /\ spawnedAt' = now
    /\ pc' = "awaitStart"
    /\ calls' = Called("spawn")
    /\ UNCHANGED firstPass
    /\ UNCHANGED <<configVars, exitCode, chunks, now, error, runVars>>

\* time passes while main() waits for the server to start
Tick(d) ==
    /\ pc = "awaitStart"
    /\ startPromise.state = "pending"
    /\ ~TimerDue
    /\ now' = now + d
    /\ UNCHANGED <<calls, firstPass, configVars, pc, exitCode, serverVars,
                   error, runVars>>

\* setTimeout(() => reject(...), 60_000)
StartTimeout ==
    /\ TimerDue
    /\ timeout' = "fired"
    /\ startPromise' = Reject(startPromise, "ServerStartTimeout")
    /\ UNCHANGED <<calls, firstPass, configVars, pc, exitCode, viteChild,
                   output, chunks, now, spawnedAt, error, runVars>>

\* child.stdout.on("data")
StdoutData(chunk) ==
    /\ CanHandleEvent
    /\ viteChild.state \in {"running", "exited"}
    /\ chunks < MaxChunks
    /\ chunks' = chunks + 1
    /\ output' = output \o chunk
    /\ LET match == Match(output')
       IN  IF match # None
             THEN /\ timeout' = ClearTimeout
                  /\ startPromise' = Resolve(startPromise, StripQuotes(match[1]))
             ELSE UNCHANGED <<timeout, startPromise>>
    /\ UNCHANGED <<calls, firstPass, configVars, pc, exitCode, viteChild, now,
                   spawnedAt, error, runVars>>

\* child.stderr.on("data")
StderrData(chunk) ==
    /\ CanHandleEvent
    /\ viteChild.state \in {"running", "exited"}
    /\ chunks < MaxChunks
    /\ chunks' = chunks + 1
    /\ output' = output \o chunk
    /\ UNCHANGED <<calls, firstPass, configVars, pc, exitCode, viteChild,
                   startPromise, timeout, now, spawnedAt, error, runVars>>

\* child.on("error")
ChildError ==
    /\ CanHandleEvent
    /\ viteChild.state = "spawnError"
    /\ viteChild' = [viteChild EXCEPT !.state = "failed"]
    /\ timeout' = ClearTimeout
    /\ startPromise' = Reject(startPromise, "SpawnError")
    /\ UNCHANGED <<calls, firstPass, configVars, pc, exitCode, output, chunks,
                   now, spawnedAt, error, runVars>>

\* ChildExit with the test of the exit code inverted
ChildExitInverted(code) ==
    /\ CanHandleEvent
    /\ viteChild.state = "running"
    /\ viteChild' = [viteChild EXCEPT !.state = "exited", !.code = code]
    /\ IF code # None /\ code[1] = 0
         THEN /\ timeout' = ClearTimeout
              /\ startPromise' = Reject(startPromise, "ServerExitedEarly")
         ELSE UNCHANGED <<timeout, startPromise>>
    /\ UNCHANGED <<calls, firstPass, configVars, pc, exitCode, output, chunks,
                   now, spawnedAt, error, runVars>>

\* child.on("exit"): code is null when a signal ended the process
ChildExit(code) ==
    /\ CanHandleEvent
    /\ viteChild.state = "running"
    /\ viteChild' = [viteChild EXCEPT !.state = "exited", !.code = code]
    /\ IF code # None /\ code[1] # 0
         THEN /\ timeout' = ClearTimeout
              /\ startPromise' = Reject(startPromise, "ServerExitedEarly")
         ELSE UNCHANGED <<timeout, startPromise>>
    /\ UNCHANGED <<calls, firstPass, configVars, pc, exitCode, output, chunks,
                   now, spawnedAt, error, runVars>>

\* const { child: viteChild, url: serverUrl } = await startViteServer(port)
AwaitStart ==
    /\ MainReady
    /\ IF startPromise.state = "resolved"
         THEN /\ pc' = "waitForServer"
              /\ UNCHANGED error
         ELSE /\ pc' = "catch"
              /\ error' = Some(startPromise.err)
    /\ UNCHANGED <<calls, firstPass, configVars, exitCode, serverVars, now,
                   runVars>>

\* main().catch((err) => { console.error(...); process.exit(1) })
Catch ==
    /\ pc = "catch"
    /\ Exit(1)
    /\ UNCHANGED <<calls, firstPass, configVars, serverVars, now, error,
                   runVars>>

\* an error thrown in main() outside its try block
Throw(kind) ==
    /\ pc' = "catch"
    /\ error' = Some(kind)

\* ------------------------------------------------------------------------
\* waitForServer(serverUrl, 15_000)
\* ------------------------------------------------------------------------
\* const start = Date.now()
WaitForServer ==
    /\ pc = "waitForServer"
    /\ start' = now
    /\ pc' = "poll"
    /\ calls' = Called("waitForServer")
    /\ UNCHANGED firstPass
    /\ UNCHANGED <<configVars, exitCode, serverVars, now, error, fetches,
                   browserVars, pageVars>>

\* PollCheck giving up after a number of attempts instead of after timeoutMs
PollCheckByCount ==
    /\ pc = "poll"
    /\ IF fetches.count < 5
         THEN pc' = "fetch" /\ UNCHANGED error
         ELSE Throw("ServerUnreachable")
    /\ UNCHANGED <<calls, firstPass, configVars, exitCode, serverVars, now,
                   runVars>>

\* while (Date.now() - start < timeoutMs) ... throw new Error(not reachable)
PollCheck ==
    /\ pc = "poll"
    /\ IF now - start < PollTimeoutMs
         THEN pc' = "fetch" /\ UNCHANGED error
         ELSE Throw("ServerUnreachable")
    /\ UNCHANGED <<calls, firstPass, configVars, exitCode, serverVars, now,
                   runVars>>

\* await fetch(url, { signal: AbortSignal.timeout(2000) }): the attempt takes
\* delay ms and either gets a response or throws
Fetch(delay, responded) ==
    /\ pc = "fetch"
    /\ delay <= FetchTimeoutMs
    /\ responded => delay < FetchTimeoutMs
    /\ now' = now + delay
    /\ fetches' = [count |-> fetches.count + 1, responded |-> responded,
                   endedAt |-> now']
    /\ pc' = IF responded THEN "import" ELSE "sleep"
    /\ UNCHANGED <<calls, firstPass, configVars, exitCode, serverVars, error,
                   start, browserVars, pageVars>>

\* await new Promise((r) => setTimeout(r, 300))
Sleep(delay) ==
    /\ pc = "sleep"
    /\ delay >= RetryIntervalMs
    /\ now' = now + delay
    /\ pc' = "poll"
    /\ UNCHANGED <<calls, firstPass, configVars, exitCode, serverVars, error,
                   runVars>>

\* ------------------------------------------------------------------------
\* Browser acquisition
\* ------------------------------------------------------------------------
\* existsSync(p)
ExistsSync(e, path) == path \in e.disk

\* candidates.find((p) => existsSync(p)) ?? null
FindFirst(e, candidates) ==
    LET hits == {i \in 1..Len(candidates) : ExistsSync(e, candidates[i])}
    IN  IF hits = {} THEN None ELSE Some(candidates[Least(hits)])

\* findSystemChrome returning CHROME_PATH without looking for it on disk
findSystemChromeTrusting(e) ==
    IF Truthy(e.CHROME_PATH)
      THEN e.CHROME_PATH
      ELSE FindFirst(e, Candidates(e.platform))

findSystemChrome(e) ==
    IF Truthy(e.CHROME_PATH) /\ ExistsSync(e, e.CHROME_PATH[1])
      THEN e.CHROME_PATH
      ELSE FindFirst(e, Candidates(e.platform))

\* new URL(s).protocol, or none when s does not parse as a URL
UrlProtocol(s) ==
    CASE s = "ws://remote" -> Some("ws:")
      [] s = "wss://remote" -> Some("wss:")
      [] s = "http://remote" -> Some("http:")
      [] s = "https://remote" -> Some("https:")
      [] OTHER -> None

\* IsWebSocket taking the plain socket scheme only
IsWebSocketExact(protocol) == protocol = "ws:"

\* endpoint.protocol.startsWith("ws")
IsWebSocket(protocol) == protocol \in {"ws:", "wss:"}

\* the connect options built from the endpoint
ConnectOptions(endpoint) ==
    IF IsWebSocket(UrlProtocol(endpoint)[1])
      THEN [browserWSEndpoint |-> Some(endpoint), browserURL |-> None]
      ELSE [browserWSEndpoint |-> None, browserURL |-> Some(endpoint)]

\* const puppeteerCore = await import("puppeteer-core")
ImportPuppeteer ==
    /\ pc = "import"
    /\ \/ pc' = "acquire" /\ UNCHANGED error
       \/ Throw("ImportError")
    /\ calls' = Called("import")
    /\ UNCHANGED firstPass
    /\ UNCHANGED <<configVars, exitCode, serverVars, now, runVars>>

\* viteChild.kill()
Kill(child) == [child EXCEPT !.kills = child.kills + 1]

\* lines 288-316: pick the mode from PRINTER_ENDPOINT; in local mode find the
\* executable, and without one kill the server and exit with code 1
Acquire(environments) ==
    /\ pc = "acquire"
    /\ \E e \in environments :
         /\ env' = Some(e)
         /\ IF Truthy(e.PRINTER_ENDPOINT)
              THEN IF UrlProtocol(e.PRINTER_ENDPOINT[1]) = None
                     THEN /\ Throw("InvalidUrl")
                          /\ UNCHANGED <<connectOptions, viteChild, exitCode>>
                     ELSE /\ connectOptions' =
                                Some(ConnectOptions(e.PRINTER_ENDPOINT[1]))
                          /\ pc' = "connect"
                          /\ UNCHANGED <<error, viteChild, exitCode>>
              ELSE IF findSystemChrome(e) = None
                     THEN /\ viteChild' = Kill(viteChild)
                          /\ Exit(1)
                          /\ UNCHANGED <<error, connectOptions>>
                     ELSE /\ pc' = "launch"
                          /\ UNCHANGED <<error, connectOptions, viteChild,
                                         exitCode>>
         /\ calls' =
              IF Truthy(e.PRINTER_ENDPOINT)
                THEN calls
                ELSE [calls EXCEPT
                        !["findSystemChrome"] = @ + 1,
                        !["console.error"] =
                            IF findSystemChrome(e) = None THEN @ + 1 ELSE @]
    /\ UNCHANGED <<firstPass, configVars, output, chunks, startPromise,
                   timeout, spawnedAt, now, start, fetches, browser, pageVars>>

\* browser = await puppeteer.connect(connectOptions)
Connect ==
    /\ pc = "connect"
    /\ \/ /\ browser' = [browser EXCEPT !.state = "open", !.mode = "remote"]
          /\ pc' = "newPage"
          /\ UNCHANGED error
       \/ /\ Throw("BrowserLaunchError")
          /\ UNCHANGED browser
    /\ calls' = Called("connect")
    /\ UNCHANGED firstPass
    /\ UNCHANGED <<configVars, exitCode, serverVars, now, start, fetches, env,
                   connectOptions, pageVars>>

\* browser = await puppeteer.launch({ executablePath: chromePath, ... })
Launch ==
    /\ pc = "launch"
    /\ \/ /\ browser' = [browser EXCEPT
                            !.state = "open", !.mode = "local",
                            !.executablePath = findSystemChrome(env[1])]
          /\ pc' = "newPage"
          /\ UNCHANGED error
       \/ /\ Throw("BrowserLaunchError")
          /\ UNCHANGED browser
    /\ calls' = Called("launch")
    /\ UNCHANGED firstPass
    /\ UNCHANGED <<configVars, exitCode, serverVars, now, start, fetches, env,
                   connectOptions, pageVars>>

\* ------------------------------------------------------------------------
\* Geometry: margins and the in-page measurement pass
\* ------------------------------------------------------------------------
\* RoundDiv075 truncating instead of rounding
RoundDiv075Truncated(raw) == (4 * raw) \div 3

\* Math.round(raw / 0.75) for an integer raw
RoundDiv075(raw) == (8 * raw + 3) \div 6

\* ResolveMargins without the test of the template
ResolveMarginsAnyTemplate(tpl, pageSettings) ==
    LET rawX == IF pageSettings = None THEN DefaultMarginX
                ELSE Coalesce(pageSettings[1].marginX, DefaultMarginX)
        rawY == IF pageSettings = None THEN DefaultMarginY
                ELSE Coalesce(pageSettings[1].marginY, DefaultMarginY)
    IN  [x |-> RoundDiv075(rawX), y |-> RoundDiv075(rawY)]

\* lines 354-360
ResolveMargins(tpl, pageSettings) ==
    IF tpl \in PRINT_MARGIN_TEMPLATES
      THEN LET rawX == IF pageSettings = None THEN DefaultMarginX
                       ELSE Coalesce(pageSettings[1].marginX, DefaultMarginX)
               rawY == IF pageSettings = None THEN DefaultMarginY
                       ELSE Coalesce(pageSettings[1].marginY, DefaultMarginY)
           IN  [x |-> RoundDiv075(rawX), y |-> RoundDiv075(rawY)]
      ELSE [x |-> 0, y |-> 0]

\* PAGE_DIMENSIONS[format] ?? PAGE_DIMENSIONS.a4
Dimensions(fmt) ==
    IF fmt \in DOMAIN PAGE_DIMENSIONS
      THEN PAGE_DIMENSIONS[fmt]
      ELSE PAGE_DIMENSIONS["a4"]

\* A custom property value is empty, unparsable text, or a length in px
\* (q is the length in 1/PxScale px).
CssEmpty == [kind |-> "empty", q |-> 0]

CssText == [kind |-> "text", q |-> 0]

CssPx(px) == [kind |-> "px", q |-> px * PxScale]

\* Number.parseFloat(value)
ParseFloat(value) == [nan |-> value.kind # "px", q |-> value.q]

\* Number.parseInt(attr ?? "0", 10)
ParseIndex(attr) ==
    LET str == Coalesce(attr, "0")
    IN  CASE str = "0" -> [nan |-> FALSE, n |-> 0]
          [] str = "1" -> [nan |-> FALSE, n |-> 1]
          [] str = "2" -> [nan |-> FALSE, n |-> 2]
          [] OTHER -> [nan |-> TRUE, n |-> 0]

\* SpacePages spacing the last element too
SpacePagesAll(pages, my) ==
    [i \in 1..Len(pages) |->
        [pages[i] EXCEPT !.marginBottom = (my * 3 * PxScale) \div 4]]

\* free-form: style.marginBottom = marginY * 0.75 px on all but the last
SpacePages(pages, my) ==
    [i \in 1..Len(pages) |->
        IF i < Len(pages)
          THEN [pages[i] EXCEPT !.marginBottom = (my * 3 * PxScale) \div 4]
          ELSE pages[i]]

RECURSIVE TotalHeight(_)
\* free-form: sum of offsetHeight + computed margin-bottom
TotalHeight(pages) ==
    IF pages = << >>
      THEN 0
      ELSE pages[1].offsetHeight * PxScale + pages[1].marginBottom
             + TotalHeight(Tail(pages))

\* AdjustPageHeight reading the root's value only
AdjustPageHeightRootOnly(d, my, minPageHeight) ==
    LET parsed == ParseFloat(d.rootPageHeight)
        newHeight ==
            [kind |-> "px",
             q |-> Max(parsed.q, minPageHeight * PxScale) - my * PxScale]
    IN  IF parsed.nan
          THEN d
          ELSE [d EXCEPT
                  !.rootPageHeight = newHeight,
                  !.container =
                      IF d.container = None
                        THEN None
                        ELSE Some([d.container[1] EXCEPT
                                     !.pageHeight = newHeight])]

\* fixed formats: --page-height := max(current, minPageHeight) - marginY
AdjustPageHeight(d, my, minPageHeight) ==
    LET rootHeight == d.rootPageHeight
        currentHeight ==
            IF d.container # None /\ d.container[1].pageHeight.kind # "empty"
              THEN d.container[1].pageHeight
              ELSE rootHeight
        parsed == ParseFloat(currentHeight)
        newHeight ==
            [kind |-> "px",
             q |-> Max(parsed.q, minPageHeight * PxScale) - my * PxScale]
    IN  IF parsed.nan
          THEN d
          ELSE [d EXCEPT
                  !.rootPageHeight = newHeight,
                  !.container =
                      IF d.container = None
                        THEN None
                        ELSE Some([d.container[1] EXCEPT
                                     !.pageHeight = newHeight])]

\* BreakPages breaking before the element of index 0 too
BreakPagesFromZero(pages) ==
    [i \in 1..Len(pages) |->
        LET index == ParseIndex(pages[i].index)
        IN  [pages[i] EXCEPT
               !.breakBefore =
                   IF ~index.nan /\ index.n >= 0 THEN "page" ELSE @,
               !.breakInside = "auto"]]

\* fixed formats: breakBefore on elements whose index is > 0, breakInside on all
BreakPages(pages) ==
    [i \in 1..Len(pages) |->
        LET index == ParseIndex(pages[i].index)
        IN  [pages[i] EXCEPT
               !.breakBefore =
                   IF ~index.nan /\ index.n > 0 THEN "page" ELSE @,
               !.breakInside = "auto"]]

\* Evaluate returning the total height without the minimum
EvaluateUnclamped(d, my, isFreeForm, minPageHeight) ==
    IF isFreeForm
      THEN LET spaced == SpacePages(d.pages, my)
           IN  [dom |-> [d EXCEPT !.pages = spaced],
                result |-> Some(TotalHeight(spaced))]
      ELSE LET adjusted == AdjustPageHeight(d, my, minPageHeight)
           IN  [dom |-> [adjusted EXCEPT !.pages = BreakPages(adjusted.pages)],
                result |-> None]

\* the function passed to page.evaluate: the document after it, and its result
Evaluate(d, my, isFreeForm, minPageHeight) ==
    IF isFreeForm
      THEN LET spaced == SpacePages(d.pages, my)
           IN  [dom |-> [d EXCEPT !.pages = spaced],
                result |-> Some(Max(TotalHeight(spaced),
                                    minPageHeight * PxScale))]
      ELSE LET adjusted == AdjustPageHeight(d, my, minPageHeight)
           IN  [dom |-> [adjusted EXCEPT !.pages = BreakPages(adjusted.pages)],
                result |-> None]

\* PdfHeight ignoring the measured content height
PdfHeightFixed(isFreeForm, measured, dimensions) ==
    dimensions.height * PxScale

\* isFreeForm && contentHeight ? contentHeight : dimensions.height
PdfHeight(isFreeForm, measured, dimensions) ==
    IF isFreeForm /\ measured # None /\ measured[1] # 0
      THEN measured[1]
      ELSE dimensions.height * PxScale

\* the options of page.pdf (lengths: width and margins px, height 1/PxScale px)
PdfOptions(dimensions, height, mx, my) ==
    [width |-> dimensions.width,
     height |-> height,
     margin |-> [bottom |-> 0, top |-> my, right |-> mx, left |-> mx]]

\* ------------------------------------------------------------------------
\* main(): the try block and its finally
\* ------------------------------------------------------------------------
\* Fail as it would be without the finally block
FailSkipsFinally(kind) ==
    /\ pc' = "catch"
    /\ error' = Some(kind)

\* an error thrown inside the try block: control passes to the finally block
Fail(kind) ==
    /\ pc' = "finally"
    /\ error' = Some(kind)

\* NewPage going on to the viewport without the payload injection
NewPageSkipsInjection ==
    /\ pc = "newPage"
    /\ \/ /\ page' = [page EXCEPT !.state = "open"]
          /\ pc' = "setViewport"
          /\ UNCHANGED error
       \/ /\ Fail("PageError")
          /\ UNCHANGED page
    /\ calls' = Called("newPage")
    /\ UNCHANGED firstPass
    /\ UNCHANGED <<configVars, exitCode, serverVars, now, start, fetches,
                   browserVars, fontWarning, dom, marginX, marginY,
                   contentHeight, pdf, written>>

\* const page = await browser.newPage()
NewPage ==
    /\ pc = "newPage"
    /\ \/ /\ page' = [page EXCEPT !.state = "open"]
          /\ pc' = "inject"
          /\ UNCHANGED error
       \/ /\ Fail("PageError")
          /\ UNCHANGED page
    /\ calls' = Called("newPage")
    /\ UNCHANGED firstPass
    /\ UNCHANGED <<configVars, exitCode, serverVars, now, start, fetches,
                   browserVars, fontWarning, dom, marginX, marginY,
                   contentHeight, pdf, written>>

\* await page.evaluateOnNewDocument(..., JSON.stringify(resumeData))
EvaluateOnNewDocument ==
    /\ pc = "inject"
    /\ \/ /\ page' = [page EXCEPT !.injected = resumeData]
          /\ pc' = "setViewport"
          /\ UNCHANGED error
       \/ /\ Fail("PageError")
          /\ UNCHANGED page
    /\ calls' = Called("evaluateOnNewDocument")
    /\ UNCHANGED firstPass
    /\ UNCHANGED <<configVars, exitCode, serverVars, now, start, fetches,
                   browserVars, fontWarning, dom, marginX, marginY,
                   contentHeight, pdf, written>>

\* await page.setViewport(dimensions)
SetViewport ==
    /\ pc = "setViewport"
    /\ \/ /\ page' = [page EXCEPT !.viewport = Some(Dimensions(format[1]))]
          /\ pc' = "goto"
          /\ UNCHANGED error
       \/ /\ Fail("PageError")
          /\ UNCHANGED page
    /\ calls' = Called("setViewport")
    /\ UNCHANGED firstPass
    /\ UNCHANGED <<configVars, exitCode, serverVars, now, start, fetches,
                   browserVars, fontWarning, dom, marginX, marginY,
                   contentHeight, pdf, written>>

\* Goto trying the navigation a second time when the first attempt fails
GotoRetriesOnce(documents) ==
    /\ pc = "goto"
    /\ \/ /\ page' = [page EXCEPT !.url = Some(startPromise.url)]
          /\ \E d \in documents : dom' = Some(d)
          /\ pc' = "waitFonts"
          /\ UNCHANGED error
       \/ /\ IF calls["goto"] = 0
               THEN UNCHANGED <<pc, error>>
               ELSE Fail("NavigationTimeout")
          /\ UNCHANGED <<page, dom>>
    /\ calls' = Called("goto")
    /\ UNCHANGED firstPass
    /\ UNCHANGED <<configVars, exitCode, serverVars, now, start, fetches,
                   browserVars, fontWarning, marginX, marginY, contentHeight,
                   pdf, written>>

\* await page.goto(serverUrl, { waitUntil: "networkidle0", timeout: 60_000 }):
\* on success the page holds one of the documents the templates can render
Goto(documents) ==
    /\ pc = "goto"
    /\ \/ /\ page' = [page EXCEPT !.url = Some(startPromise.url)]
          /\ \E d \in documents : dom' = Some(d)
          /\ pc' = "waitFonts"
          /\ UNCHANGED error
       \/ /\ Fail("NavigationTimeout")
          /\ UNCHANGED <<page, dom>>
    /\ calls' = Called("goto")
    /\ UNCHANGED firstPass
    /\ UNCHANGED <<configVars, exitCode, serverVars, now, start, fetches,
                   browserVars, fontWarning, marginX, marginY, contentHeight,
                   pdf, written>>

\* WaitForFonts letting the timeout escape
WaitForFontsFatal ==
    /\ pc = "waitFonts"
    /\ \/ /\ fontWarning' = FALSE
          /\ pc' = "measure"
          /\ UNCHANGED error
       \/ /\ fontWarning' = TRUE
          /\ Fail("FontReadinessTimeout")
    /\ calls' = Called("waitForFonts")
    /\ UNCHANGED firstPass
    /\ UNCHANGED <<configVars, exitCode, serverVars, now, start, fetches,
                   browserVars, page, dom, marginX, marginY, contentHeight, pdf,
                   written>>

\* try { await page.waitForFunction(..., { timeout: 10_000 }) } catch { warn }
WaitForFonts ==
    /\ pc = "waitFonts"
    /\ fontWarning' \in BOOLEAN
    /\ pc' = "measure"
    /\ calls' = Called("waitForFonts")
    /\ UNCHANGED firstPass
    /\ UNCHANGED <<configVars, exitCode, serverVars, now, start, fetches, error,
                   browserVars, page, dom, marginX, marginY, contentHeight, pdf,
                   written>>

\* Measure adding the margins to those of an earlier pass
MeasureAccumulating ==
    /\ pc = "measure"
    /\ LET margins == ResolveMargins(template[1], PageSettingsOf(resumeData[1]))
           isFreeForm == format[1] = "free-form"
           run == Evaluate(dom[1], marginY + margins.y, isFreeForm,
                           Dimensions(format[1]).height)
       IN  /\ marginX' = marginX + margins.x
           /\ marginY' = marginY + margins.y
           /\ \/ /\ dom' = Some(run.dom)
                 /\ contentHeight' = run.result
                 /\ pc' = "pdf"
                 /\ UNCHANGED error
              \/ /\ Fail("EvaluateError")
                 /\ UNCHANGED <<dom, contentHeight>>
    /\ calls' = Called("evaluate")
    /\ UNCHANGED firstPass
    /\ UNCHANGED <<configVars, exitCode, serverVars, now, start, fetches,
                   browserVars, page, fontWarning, pdf, written>>

\* lines 354-412: resolve the margins, then run the measurement pass
Measure ==
    /\ pc = "measure"
    /\ LET margins == ResolveMargins(template[1], PageSettingsOf(resumeData[1]))
           isFreeForm == format[1] = "free-form"
           run == Evaluate(dom[1], margins.y, isFreeForm,
                           Dimensions(format[1]).height)
       IN  /\ marginX' = margins.x
           /\ marginY' = margins.y
           /\ \/ /\ dom' = Some(run.dom)
                 /\ contentHeight' = run.result
                 /\ pc' = "pdf"
                 /\ UNCHANGED error
              \/ /\ Fail("EvaluateError")
                 /\ UNCHANGED <<dom, contentHeight>>
    /\ calls' = Called("evaluate")
    /\ UNCHANGED firstPass
    /\ UNCHANGED <<configVars, exitCode, serverVars, now, start, fetches,
                   browserVars, page, fontWarning, pdf, written>>

\* what a measurement pass leaves behind: the margins, the returned content
\* height and the document with its styles
PassResults ==
    [marginX |-> marginX, marginY |-> marginY,
     contentHeight |-> contentHeight, dom |-> dom]

\* lines 354-412 run a second time: the document is kept as it is before the
\* first pass ...
KeepDocument ==
    /\ pc = "measure"
    /\ firstPass = None
    /\ firstPass' = Some([snapshot |-> dom, results |-> None])
    /\ UNCHANGED <<configVars, pc, exitCode, serverVars, now, start, fetches,
                   error, browserVars, pageVars, calls>>

\* ... and put back after it, with the format, the template and the payload
\* as they are, for the second pass
RepeatPass ==
    /\ pc = "pdf"
    /\ firstPass # None
    /\ firstPass[1].results = None
    /\ firstPass' = Some([firstPass[1] EXCEPT !.results = Some(PassResults)])
    /\ dom' = firstPass[1].snapshot
    /\ pc' = "measure"
    /\ UNCHANGED <<configVars, exitCode, serverVars, now, start, fetches,
                   error, browserVars, page, fontWarning, marginX, marginY,
                   contentHeight, pdf, written, calls>>

\* lines 418-433: const pdfBuffer = await page.pdf({...})
Pdf ==
    /\ pc = "pdf"
    /\ LET dimensions == Dimensions(format[1])
           pdfHeight == PdfHeight(format[1] = "free-form", contentHeight,
                                  dimensions)
       IN  pdf' = Some(PdfOptions(dimensions, pdfHeight, marginX, marginY))
    /\ \/ pc' = "pageClose" /\ UNCHANGED error
       \/ Fail("PdfCaptureError")
    /\ calls' = Called("pdf")
    /\ UNCHANGED firstPass
    /\ UNCHANGED <<configVars, exitCode, serverVars, now, start, fetches,
                   browserVars, page, fontWarning, dom, marginX, marginY,
                   contentHeight, written>>

\* await page.close()
PageClose ==
    /\ pc = "pageClose"
    /\ \/ /\ page' = [page EXCEPT !.state = "closed"]
          /\ pc' = "write"
          /\ UNCHANGED error
       \/ /\ Fail("PageError")
          /\ UNCHANGED page
    /\ calls' = Called("pageClose")
    /\ UNCHANGED firstPass
    /\ UNCHANGED <<configVars, exitCode, serverVars, now, start, fetches,
                   browserVars, fontWarning, dom, marginX, marginY,
                   contentHeight, pdf, written>>

\* writeFileSync(outputPath, pdfBuffer)
WriteFile ==
    /\ pc = "write"
    /\ \/ /\ written' = written + 1
          /\ pc' = "finally"
          /\ UNCHANGED error
       \/ /\ Fail("WriteError")
          /\ UNCHANGED written
    /\ calls' = Called("writeFile")
    /\ UNCHANGED firstPass
    /\ UNCHANGED <<configVars, exitCode, serverVars, now, start, fetches,
                   browserVars, page, fontWarning, dom, marginX, marginY,
                   contentHeight, pdf>>

\* finally { await browser.close(): a rejection leaves the finally block at
\* once and replaces the error main() was failing with
BrowserClose ==
    /\ pc = "finally"
    /\ \/ /\ browser' = [browser EXCEPT !.state = "closed",
                                        !.closeCalls = @ + 1]
          /\ pc' = "kill"
          /\ UNCHANGED error
       \/ /\ browser' = [browser EXCEPT !.closeCalls = @ + 1]
          /\ Throw("BrowserCloseError")
    /\ UNCHANGED <<calls, firstPass, configVars, exitCode, serverVars, now,
                   start, fetches, env, connectOptions, pageVars>>

\* KillServer without the call of viteChild.kill()
KillServerSkipped ==
    /\ pc = "kill"
    /\ pc' = IF error = None THEN "returned" ELSE "catch"
    /\ UNCHANGED <<calls, firstPass, configVars, exitCode, viteChild, output,
                   chunks, startPromise, timeout, spawnedAt, now, error,
                   runVars>>

\* viteChild.kill() }, then main() returns or rethrows the pending error
KillServer ==
    /\ pc = "kill"
    /\ viteChild' = Kill(viteChild)
    /\ pc' = IF error = None THEN "returned" ELSE "catch"
    /\ UNCHANGED <<calls, firstPass, configVars, exitCode, output, chunks,
                   startPromise, timeout, spawnedAt, now, error, runVars>>

\* main() has returned: the process ends with code 0 once nothing keeps the
\* event loop alive, that is once the server process has exited
ProcessEnd ==
    /\ pc = "returned"
    /\ viteChild.state # "running"
    /\ Exit(0)
    /\ UNCHANGED <<calls, firstPass, configVars, serverVars, now, error,
                   runVars>>

\* ------------------------------------------------------------------------
\* Specification
\* ------------------------------------------------------------------------
\* what the server can write: pieces of a URL line, a whole quoted one, more
UrlChunk == <<"H", "'", "a", ":", "1">>

Chunks == {<<"H", "a">>, <<":", "1">>, UrlChunk, <<"1", " ">>}

ExitStatuses == {None, Some(0), Some(1)}

\* durations of a fetch attempt and of the retry sleep
FetchDelays == {0, FetchTimeoutMs \div 2, FetchTimeoutMs}

SleepDelays == {RetryIntervalMs, 2 * RetryIntervalMs}

PageElement(height, index) ==
    [offsetHeight |-> height, marginBottom |-> 0, index |-> index,
     breakBefore |-> "", breakInside |-> ""]

\* documents the page can hold after navigation
Documents ==
    {[pages |-> <<PageElement(500, Some("0")), PageElement(600, Some("1"))>>,
      container |-> Some([pageHeight |-> CssPx(1123)]),
      rootPageHeight |-> CssPx(1123)]}

Init ==
    /\ values \in Values
    /\ positionals \in {0, 1}
    /\ resumeData = None
    /\ template = None
    /\ format = None
    /\ pc = "parseArgs"
    /\ exitCode = None
    /\ viteChild = [state |-> "none", code |-> None, kills |-> 0]
    /\ output = << >>
    /\ chunks = 0
    /\ startPromise = [state |-> "none", url |-> << >>, err |-> ""]
    /\ timeout = "none"
    /\ now = 0
    /\ spawnedAt = 0
    /\ start = 0
    /\ fetches = [count |-> 0, responded |-> FALSE, endedAt |-> 0]
    /\ error = None
    /\ env = None
    /\ connectOptions = None
    /\ browser = [state |-> "none", mode |-> "", executablePath |-> None,
                  closeCalls |-> 0]
    /\ page = [state |-> "none", injected |-> None, viewport |-> None,
               url |-> None]
    /\ fontWarning = FALSE
    /\ dom = None
    /\ marginX = 0
    /\ marginY = 0
    /\ contentHeight = None
    /\ pdf = None
    /\ written = 0
    /\ calls = [op \in Operations |-> 0]
    /\ firstPass = None

\* the script up to main()
Script(payloads) ==
    \/ ParseArgs
    \/ ValidateOptions
    \/ ReadInput(payloads)
    \/ Configure

\* main() from browser acquisition on, and the end of the process
Pipeline(environments, documents) ==
    \/ ImportPuppeteer
    \/ Acquire(environments)
    \/ Connect
    \/ Launch
    \/ NewPage
    \/ EvaluateOnNewDocument
    \/ SetViewport
    \/ Goto(documents)
    \/ WaitForFonts
    \/ Measure
    \/ Pdf
    \/ PageClose
    \/ WriteFile
    \/ BrowserClose
    \/ KillServer
    \/ ProcessEnd
    \/ Catch

\* a server that writes its URL in one piece on stdout or exits with status 1
\* while main() waits for it, and afterwards only exits once it is killed
QuietServer ==
    \/ SpawnServer
    \/ Tick(StartTimeoutMs)
    \/ StartTimeout
    \/ pc = "awaitStart" /\ StdoutData(UrlChunk)
    \/ pc = "awaitStart" /\ ChildExit(Some(1))
    \/ viteChild.kills > 0 /\ ChildExit(None)
    \/ ChildError
    \/ AwaitStart

\* any server: output in pieces on both streams, any exit status, at any time
AnyServer ==
    \/ SpawnServer
    \/ Tick(TickMs)
    \/ StartTimeout
    \/ \E chunk \in Chunks : StdoutData(chunk)
    \/ \E chunk \in Chunks : StderrData(chunk)
    \/ \E code \in ExitStatuses : ChildExit(code)
    \/ ChildError
    \/ AwaitStart

\* polling a server that answers the first attempt at once, or none: every
\* other attempt times out
CoarsePolling ==
    \/ WaitForServer
    \/ PollCheck
    \/ fetches.count = 0 /\ Fetch(0, TRUE)
    \/ Fetch(FetchTimeoutMs, FALSE)
    \/ Sleep(RetryIntervalMs)

\* polling with every duration of attempts and sleeps
AnyPolling ==
    \/ WaitForServer
    \/ PollCheck
    \/ \E delay \in FetchDelays, responded \in BOOLEAN : Fetch(delay, responded)
    \/ \E delay \in SleepDelays : Sleep(delay)

\* every command line and payload, against a quiet server
Next ==
    \/ Script(Payloads)
    \/ QuietServer
    \/ CoarsePolling
    \/ Pipeline(RunEnvironments, Documents)

Spec == Init /\ [][Next]_vars

\* one command line and payload, against any server
InitPlain ==
    /\ Init
    /\ values = [template |-> None, format |-> None, help |-> FALSE]
    /\ positionals = 1

PlainPayload == [isNull |-> FALSE, metadata |-> None]

NextServer ==
    \/ Script({PlainPayload})
    \/ AnyServer
    \/ CoarsePolling
    \/ Pipeline(RunEnvironments, Documents)

SpecServer == InitPlain /\ [][NextServer]_vars

\* the steps of the script and of main(): each await of main() settles and
\* its continuation runs
MainStep ==
    \/ Script({PlainPayload})
    \/ SpawnServer
    \/ AwaitStart
    \/ CoarsePolling
    \/ Pipeline(RunEnvironments, Documents)

\* what the event loop and the operating system guarantee: the continuation
\* of a settled await runs, time passes while main() waits for the start
\* promise, a timer that is due fires, a server that was sent SIGTERM exits.
\* Nothing makes the server write or exit of its own accord.
Fairness ==
    /\ WF_vars(MainStep)
    /\ WF_vars(Tick(TickMs))
    /\ WF_vars(StartTimeout)
    /\ WF_vars(viteChild.kills > 0 /\ \E code \in ExitStatuses : ChildExit(code))

SpecServerFair == SpecServer /\ Fairness

\* one command line and payload, up to the end of waitForServer, with any
\* polling
NextPolling ==
    \/ Script({PlainPayload})
    \/ SpawnServer
    \/ StdoutData(UrlChunk)
    \/ AwaitStart
    \/ AnyPolling
    \/ Catch

SpecPolling == InitPlain /\ [][NextPolling]_vars

\* payloads for the geometry: the default print-margin template or one
\* outside the set, every format, raw margins absent or given
GeometryPageSettings ==
    [format : OptOf({"letter", "free-form"}),
     marginX : {None, Some(14), Some(RawMargin)},
     marginY : {None, Some(9), Some(12)}]

GeometryPayloads ==
    [isNull : {FALSE},
     metadata : {Some(m) : m \in [template : {None, Some("chikorita")},
                                  page : OptOf(GeometryPageSettings)]}]

\* a page element with a bottom margin of its own (in 1/PxScale px)
PageElementWithMargin(height, index, margin) ==
    [PageElement(height, index) EXCEPT !.marginBottom = margin]

\* lists of page elements: none, one, several; page-index attributes in
\* order, missing, duplicated, out of order, unparsable
PageLists ==
    {<< >>,
     <<PageElement(500, Some("0"))>>,
     <<PageElement(500, Some("0")), PageElement(600, Some("1")),
       PageElement(400, Some("2"))>>,
     <<PageElement(500, Some("0")),
       PageElementWithMargin(600, Some("1"), 10 * PxScale)>>,
     <<PageElement(500, None), PageElement(600, None)>>,
     <<PageElement(500, Some("1")), PageElement(600, Some("1"))>>,
     <<PageElement(500, Some("1")), PageElement(600, Some("0"))>>,
     <<PageElement(500, Some("x")), PageElement(600, Some("2"))>>}

\* values of the --page-height property: absent, unparsable, below and above
\* the minimum page height
PageHeights == {CssEmpty, CssText, CssPx(1000), CssPx(1200)}

\* documents for the geometry: every page list in one frame, and one page
\* list in every frame (container absent or present, any property values)
GeometryDocuments ==
    {[pages |-> pages,
      container |-> Some([pageHeight |-> CssPx(1123)]),
      rootPageHeight |-> CssPx(1123)] : pages \in PageLists}
      \cup
    [pages : {<<PageElement(500, Some("0")), PageElement(600, Some("1"))>>},
     container : {None} \cup {Some([pageHeight |-> h]) : h \in PageHeights},
     rootPageHeight : PageHeights]

\* a local browser found on disk
LocalEnvironment ==
    [PRINTER_ENDPOINT |-> None, CHROME_PATH |-> Some(ChromePathValue),
     platform |-> "linux", disk |-> {ChromePathValue}]

\* one command line, every geometry payload and document, a server and a
\* browser that work
NextGeometry ==
    \/ Script(GeometryPayloads)
    \/ SpawnServer
    \/ pc = "awaitStart" /\ StdoutData(UrlChunk)
    \/ AwaitStart
    \/ WaitForServer
    \/ PollCheck
    \/ Fetch(0, TRUE)
    \/ ImportPuppeteer
    \/ Acquire({LocalEnvironment})
    \/ Launch
    \/ NewPage
    \/ EvaluateOnNewDocument
    \/ SetViewport
    \/ Goto(GeometryDocuments)
    \/ WaitForFonts
    \/ Measure
    \/ Pdf
    \/ PageClose
    \/ WriteFile
    \/ BrowserClose
    \/ KillServer
    \/ viteChild.kills > 0 /\ ChildExit(None)
    \/ ProcessEnd
    \/ Catch

SpecGeometry == InitPlain /\ [][NextGeometry]_vars

\* the measurement pass run twice on the same document, for every geometry
\* payload and document
NextRepeat ==
    \/ Script(GeometryPayloads)
    \/ SpawnServer
    \/ pc = "awaitStart" /\ StdoutData(UrlChunk)
    \/ AwaitStart
    \/ WaitForServer
    \/ PollCheck
    \/ Fetch(0, TRUE)
    \/ ImportPuppeteer
    \/ Acquire({LocalEnvironment})
    \/ Launch
    \/ NewPage
    \/ EvaluateOnNewDocument
    \/ SetViewport
    \/ Goto(GeometryDocuments)
    \/ WaitForFonts
    \/ KeepDocument
    \/ firstPass # None /\ Measure
    \/ RepeatPass

SpecRepeat == InitPlain /\ [][NextRepeat]_vars

\* one command line and payload, a server that works, every environment of
\* the browser acquisition
NextBrowser ==
    \/ Script({PlainPayload})
    \/ SpawnServer
    \/ pc = "awaitStart" /\ StdoutData(UrlChunk)
    \/ AwaitStart
    \/ WaitForServer
    \/ PollCheck
    \/ Fetch(0, TRUE)
    \/ viteChild.kills > 0 /\ ChildExit(None)
    \/ Pipeline(BrowserEnvironments, Documents)

SpecBrowser == InitPlain /\ [][NextBrowser]_vars

\* ------------------------------------------------------------------------
\* Properties
\* ------------------------------------------------------------------------
\* the server process was started (whether or not it has exited since)
Spawned == viteChild.state \in {"running", "exited"}

Ended == pc = "exited"

\* C1: every run that spawned the server has sent it a termination signal by
\* the time the process ends; no run ends with the spawned server never
\* killed (read in the claim's favour: a server that has already exited by
\* itself is not counted as leaked).
C1_ServerKilledOnEveryExit ==
    (Ended /\ Spawned) => (viteChild.kills > 0 \/ viteChild.state = "exited")

\* C2: once cleanup has begun (browser.close() was called), the run ends with
\* the server killed as well and never with the error of the cleanup itself
\* in place of its primary outcome.
C2_CleanupNeverThrows ==
    (Ended /\ browser.closeCalls > 0)
        => /\ viteChild.kills > 0
           /\ error # Some("BrowserCloseError")

\* C3: once a browser has been acquired, browser.close() has been called by
\* the time the process ends, whichever page step threw or none, and the
\* browser is closed unless close() itself rejected.
C3_BrowserClosedOnEveryExit ==
    (Ended /\ browser.state # "none")
        => /\ browser.closeCalls = 1
           /\ error # Some("BrowserCloseError") => browser.state = "closed"

\* a page step threw after the browser was acquired, and the run has ended
C3_Witness ==
    /\ Ended
    /\ error = Some("NavigationTimeout")
    /\ browser.state = "closed"

\* C4: the output file is written at most once, only after PDF capture
\* succeeded, and never in a run that ends in failure.
C4_OutputOnlyOnSuccess ==
    /\ written <= 1
    /\ written = 1 => (pdf # None /\ page.state = "closed")
    /\ (Ended /\ exitCode = Some(1)) => written = 0

\* C5: the exit code is 0 exactly when the PDF was written or help was asked
\* for, and 1 otherwise.
C5_ExitCodeMatchesOutcome ==
    Ended => /\ exitCode \in {Some(0), Some(1)}
             /\ exitCode = Some(0) <=> (written = 1 \/ values.help)

\* C6: while main() waits for the start, once 60 s have passed without a
\* ready URL the start fails with the timeout error (the timer is due and its
\* callback rejects), never before 60 s; and a non-zero exit of the server
\* before a ready URL fails the start in the very step that handles the exit,
\* with the exited-early error and without any wait.
C6_StartFailures ==
    /\ [](/\ (pc = "awaitStart" /\ now - spawnedAt >= StartTimeoutMs)
               => \/ startPromise.state = "pending" /\ timeout = "armed"
                  \/ /\ startPromise.state = "rejected"
                     /\ startPromise.err = "ServerStartTimeout"
          /\ (pc = "awaitStart" /\ startPromise.err = "ServerStartTimeout")
               => now - spawnedAt >= StartTimeoutMs)
    /\ [][/\ (timeout = "armed" /\ timeout' = "fired")
               => /\ startPromise'.state = "rejected"
                  /\ startPromise'.err = "ServerStartTimeout"
          /\ (/\ startPromise.state = "pending"
              /\ viteChild.state = "running"
              /\ viteChild'.state = "exited"
              /\ viteChild'.code \notin {None, Some(0)})
               => /\ startPromise'.state = "rejected"
                  /\ startPromise'.err = "ServerExitedEarly"
                  /\ now' = now]_vars

\* the server exited with status 1 before the timeout and before any URL
C6_Witness ==
    /\ pc = "awaitStart"
    /\ startPromise.err = "ServerExitedEarly"
    /\ viteChild.code = Some(1)
    /\ now > spawnedAt
    /\ now - spawnedAt < StartTimeoutMs

\* C7: polling is over as soon as one attempt got a response; the
\* unreachable error is raised only when at least timeoutMs have passed since
\* polling began; an attempt that follows a failed one starts at least the
\* retry interval after it.
C7_Polling ==
    /\ fetches.responded => pc \notin {"poll", "fetch", "sleep"}
    /\ (fetches.responded /\ pc \notin {"import", "exited"})
           => error # Some("ServerUnreachable")
    /\ error = Some("ServerUnreachable") => now - start >= PollTimeoutMs
    /\ (pc = "fetch" /\ fetches.count > 0)
           => now - fetches.endedAt >= RetryIntervalMs

\* polling gave up after several failed attempts
C7_Witness ==
    /\ error = Some("ServerUnreachable")
    /\ fetches.count > 1
    /\ ~fetches.responded

\* C8: a --template or --format that was given is the effective template or
\* format, whatever the payload.
C8_OverridesWin ==
    /\ (template # None /\ Truthy(values.template)) => template = values.template
    /\ (format # None /\ Truthy(values.format)) => format = values.format

\* C9: when the server has been spawned the effective template and format are
\* valid ones.
C9_EffectiveSettingsValid ==
    Spawned
        => /\ template[1] \in VALID_TEMPLATES
           /\ format[1] \in VALID_FORMATS

\* C10: for a template outside the print-margin set both computed margins are
\* 0 whatever the payload's marginX and marginY, and so are all the margins
\* passed to page.pdf().
C10_NoMarginsOutsidePrintSet ==
    (template # None /\ template[1] \notin PRINT_MARGIN_TEMPLATES)
        => /\ marginX = 0
           /\ marginY = 0
           /\ pdf # None
                => pdf[1].margin = [bottom |-> 0, top |-> 0, right |-> 0,
                                    left |-> 0]

\* a PDF was captured for a template outside the set with payload margins 50/50
C10_Witness ==
    /\ pdf # None
    /\ template = Some("chikorita")
    /\ PageSettingsOf(resumeData[1]) # None
    /\ PageSettingsOf(resumeData[1])[1].marginX = Some(RawMargin)
    /\ PageSettingsOf(resumeData[1])[1].marginY = Some(RawMargin)

\* the payload's raw margins, with the defaults of lines 358-359
RawMarginX ==
    IF PageSettingsOf(resumeData[1]) = None THEN DefaultMarginX
    ELSE Coalesce(PageSettingsOf(resumeData[1])[1].marginX, DefaultMarginX)

RawMarginY ==
    IF PageSettingsOf(resumeData[1]) = None THEN DefaultMarginY
    ELSE Coalesce(PageSettingsOf(resumeData[1])[1].marginY, DefaultMarginY)

\* m is the integer nearest to raw / 0.75 = 4 * raw / 3
NearestToScaled(m, raw) == 3 * m - 4 * raw \in -1..1

\* C11: for a template of the print-margin set, the margin computed on each
\* axis is the payload's raw value divided by 0.75 and rounded to the nearest
\* integer, the raw value being 14 (horizontal) or 12 (vertical) when the
\* payload gives none: raw 14 gives 19 and raw 12 gives 16.
C11_MarginsScaled ==
    [][(pc = "measure" /\ pc' # "measure"
          /\ template[1] \in PRINT_MARGIN_TEMPLATES)
         => /\ NearestToScaled(marginX', RawMarginX)
            /\ NearestToScaled(marginY', RawMarginY)
            /\ RawMarginX = 14 => marginX' = 19
            /\ RawMarginY = 12 => marginY' = 16]_vars

\* margins were computed for a print-margin template from the payload's raw
\* values 14 and 12
C11_Witness ==
    /\ pc = "pdf"
    /\ template[1] \in PRINT_MARGIN_TEMPLATES
    /\ PageSettingsOf(resumeData[1]) # None
    /\ PageSettingsOf(resumeData[1])[1].marginX = Some(14)
    /\ PageSettingsOf(resumeData[1])[1].marginY = Some(12)
    /\ marginX = 19
    /\ marginY = 16

\* C12: the PDF is captured with the format's fixed width; with the fixed
\* height for a4 and letter and with the larger of the measured content
\* height and the fixed height for free-form; with margins bottom 0, top the
\* vertical margin, left and right the horizontal margin.  A4 with a
\* print-margin template and raw margins 14/12 gives 794 x 1123 px, top 16,
\* left 19, right 19, bottom 0.
C12_PdfOptions ==
    (pdf # None /\ format[1] \in VALID_FORMATS)
        => /\ pdf[1].width = PAGE_DIMENSIONS[format[1]].width
           /\ pdf[1].height =
                IF format[1] = "free-form"
                  THEN Max(contentHeight[1],
                           PAGE_DIMENSIONS[format[1]].height * PxScale)
                  ELSE PAGE_DIMENSIONS[format[1]].height * PxScale
           /\ pdf[1].margin = [bottom |-> 0, top |-> marginY,
                               right |-> marginX, left |-> marginX]
           /\ (/\ format[1] = "a4"
               /\ template[1] \in PRINT_MARGIN_TEMPLATES
               /\ RawMarginX = 14
               /\ RawMarginY = 12)
                => pdf[1] = [width |-> 794, height |-> 1123 * PxScale,
                             margin |-> [bottom |-> 0, top |-> 16,
                                         right |-> 19, left |-> 19]]

\* a free-form capture taller than the fixed height
C12_Witness ==
    /\ pdf # None
    /\ format = Some("free-form")
    /\ contentHeight # None
    /\ pdf[1].height = contentHeight[1]
    /\ pdf[1].height > 1123 * PxScale

RECURSIVE SumOffsetHeights(_, _)
\* the offsetHeight of the first n page elements, added up (px)
SumOffsetHeights(pages, n) ==
    IF n = 0 THEN 0
    ELSE pages[n].offsetHeight + SumOffsetHeights(pages, n - 1)

\* the measurement pass of a free-form run has just returned
FreeFormMeasured ==
    /\ pc = "pdf"
    /\ format = Some("free-form")

\* the page elements are 500, 600 and 400 px high, the last without a bottom
\* margin of its own
ThreePages ==
    /\ Len(dom[1].pages) = 3
    /\ dom[1].pages[1].offsetHeight = 500
    /\ dom[1].pages[2].offsetHeight = 600
    /\ dom[1].pages[3].offsetHeight = 400
    /\ dom[1].pages[3].marginBottom = 0

\* C13 as stated: in the free-form branch every page element but the last
\* gets a bottom spacing of the raw vertical margin times 0.75 (raw 12 gives
\* 9 px), and elements of 500, 600 and 400 px with a raw vertical margin of 12
\* measure 1518 px.
C13_SpacingFromRawMargin ==
    FreeFormMeasured
        => /\ \A i \in 1..(Len(dom[1].pages) - 1) :
                 dom[1].pages[i].marginBottom = 3 * RawMarginY
           /\ (ThreePages /\ RawMarginY = 12)
                => contentHeight = Some(1518 * PxScale)

\* C13 amended: in the free-form branch every page element but the last gets
\* a bottom spacing of the computed vertical margin (the raw value divided by
\* 0.75 and rounded for a print-margin template, 0 otherwise) times 0.75; the
\* measured height is the larger of the minimum page height and the sum of
\* the element heights, those spacings and the last element's own bottom
\* margin.  Elements of 500, 600 and 400 px measure 1518 px with a computed
\* margin of 12 (raw 9, spacing 9 px) and 1524 px with a raw margin of 12
\* (computed 16, spacing 12 px).
C13_SpacingFromComputedMargin ==
    [][(pc = "measure" /\ pc' = "pdf" /\ format = Some("free-form"))
         => LET pages == dom[1].pages
                n == Len(pages)
                total == SumOffsetHeights(pages, n) * PxScale
                           + (IF n = 0 THEN 0
                              ELSE (n - 1) * 3 * marginY'
                                     + pages[n].marginBottom)
            IN  /\ Len(dom'[1].pages) = n
                /\ \A i \in 1..(n - 1) :
                      dom'[1].pages[i].marginBottom = 3 * marginY'
                /\ n > 0 => dom'[1].pages[n] = pages[n]
                /\ contentHeight' = Some(Max(total, 1123 * PxScale))
                /\ (ThreePages /\ marginY' = 12)
                     => contentHeight' = Some(1518 * PxScale)
                /\ (ThreePages /\ RawMarginY = 12
                      /\ template[1] \in PRINT_MARGIN_TEMPLATES)
                     => /\ marginY' = 16
                        /\ contentHeight' = Some(1524 * PxScale)]_vars

\* three elements of 500, 600 and 400 px measured 1518 px with a computed
\* vertical margin of 12
C13_Witness ==
    /\ FreeFormMeasured
    /\ ThreePages
    /\ marginY = 12
    /\ dom[1].pages[1].marginBottom = 9 * PxScale
    /\ contentHeight = Some(1518 * PxScale)

\* C14: the content height returned by the free-form measurement is never
\* below the minimum page height (the free-form page height, 1123 px),
\* whatever the number of page elements (none included), their heights and
\* the margins.
C14_FreeFormAtLeastMinimum ==
    (format = Some("free-form") /\ contentHeight # None)
        => contentHeight[1] >= PAGE_DIMENSIONS["free-form"].height * PxScale

\* a free-form document without page elements measured the minimum height
C14_Witness ==
    /\ FreeFormMeasured
    /\ dom[1].pages = << >>
    /\ contentHeight = Some(1123 * PxScale)

\* the measurement pass of a run with a fixed format returns in this step
FixedMeasureStep ==
    /\ pc = "measure"
    /\ pc' = "pdf"
    /\ format # Some("free-form")

\* the original page height: the container's value if the container is there
\* and carries one, else the root's
OriginalHeight ==
    IF dom[1].container # None /\ dom[1].container[1].pageHeight # CssEmpty
      THEN dom[1].container[1].pageHeight
      ELSE dom[1].rootPageHeight

\* the minimum page height: the fixed height of the format in use
MinPageHeight == Dimensions(format[1]).height

\* the value the property gets from an original height of q (in 1/PxScale px)
AdjustedHeight(q, my) ==
    [kind |-> "px", q |-> Max(q, MinPageHeight * PxScale) - my * PxScale]

\* C15 as stated: in the fixed-format branch the page-height property is
\* always set, on the root and on the container when there is one, to
\* max(original, minimum page height) - vertical margin, for every original
\* value, an absent or unparsable one included (the minimum then decides).
C15_PageHeightAlwaysSet ==
    [][FixedMeasureStep
         => LET q == IF OriginalHeight.kind = "px" THEN OriginalHeight.q ELSE 0
                new == AdjustedHeight(q, marginY')
            IN  /\ dom'[1].rootPageHeight = new
                /\ dom[1].container # None
                     => dom'[1].container[1].pageHeight = new]_vars

\* C15 amended: in the fixed-format branch the original page height is read
\* from the container if there is one carrying a non-empty value, else from
\* the root.  If it parses as a number, the property is set on the root and
\* on the container (when there is one) to max(original, minimum page
\* height) - vertical margin; if it is absent or unparsable, the property is
\* left as it was on both.
C15_PageHeightSetWhenParsable ==
    [][FixedMeasureStep
         => IF OriginalHeight.kind = "px"
              THEN LET new == AdjustedHeight(OriginalHeight.q, marginY')
                   IN  /\ dom'[1].rootPageHeight = new
                       /\ dom[1].container # None
                            => dom'[1].container[1].pageHeight = new
                       /\ dom[1].container = None => dom'[1].container = None
              ELSE /\ dom'[1].rootPageHeight = dom[1].rootPageHeight
                   /\ dom'[1].container = dom[1].container]_vars

\* a fixed-format run with a vertical margin of 16 set the property to
\* 1200 - 16 px on the container and on the root
C15_Witness ==
    /\ pc = "pdf"
    /\ format # Some("free-form")
    /\ marginY = 16
    /\ dom[1].container = Some([pageHeight |-> CssPx(1200 - 16)])
    /\ dom[1].rootPageHeight = CssPx(1200 - 16)

\* the measurement pass of a run with a fixed format has just returned
FixedMeasured ==
    /\ pc = "pdf"
    /\ format # Some("free-form")

\* C16 as stated: in the fixed-format branch every page element after the
\* first in document order gets a forced page break before it, the first
\* gets none, and every element allows breaks within it, whatever the
\* page-index attributes (missing, duplicated, out of order).
C16_BreakByPosition ==
    FixedMeasured
        => \A i \in 1..Len(dom[1].pages) :
              /\ dom[1].pages[i].breakInside = "auto"
              /\ dom[1].pages[i].breakBefore = "page" <=> i > 1

\* C16 amended: in the fixed-format branch a page element gets a forced page
\* break before it exactly when its page-index attribute reads as an integer
\* greater than 0; an element whose attribute is 0, missing or unparsable
\* gets none, wherever it stands in the document; every element allows
\* breaks within it.  When the attributes are 0, 1, 2, ... in document order
\* these are the elements after the first.
C16_BreakByAttribute ==
    FixedMeasured
        => LET pages == dom[1].pages
           IN  /\ \A i \in 1..Len(pages) :
                    /\ pages[i].breakInside = "auto"
                    /\ pages[i].breakBefore = "page"
                         <=> pages[i].index \in {Some("1"), Some("2")}
               /\ (\A i \in 1..Len(pages) :
                      pages[i].index \in {Some("0"), Some("1"), Some("2")}
                        /\ (pages[i].index = Some("0") <=> i = 1))
                    => \A i \in 1..Len(pages) :
                          pages[i].breakBefore = "page" <=> i > 1

\* a fixed-format document whose page elements carry the indices 1 and 0, in
\* this order: the first got the break, the second none
C16_Witness ==
    /\ FixedMeasured
    /\ Len(dom[1].pages) = 2
    /\ dom[1].pages[1].index = Some("1")
    /\ dom[1].pages[2].index = Some("0")
    /\ dom[1].pages[1].breakBefore = "page"
    /\ dom[1].pages[2].breakBefore = ""
    /\ dom[1].pages[2].breakInside = "auto"

\* the step of the pipeline a position of main() belongs to: 1 server start,
\* 2 reachability wait, 3 browser acquisition, 4 open page, 5 register the
\* payload injection, 6 set viewport, 7 navigate, 8 font wait, 9 measurement,
\* 10 PDF capture, 11 file write (after closing the page); 0 before the
\* pipeline, 12 after it
StepOf(p) ==
    CASE p = "awaitStart" -> 1
      [] p \in {"waitForServer", "poll", "fetch", "sleep"} -> 2
      [] p \in {"import", "acquire", "connect", "launch"} -> 3
      [] p = "newPage" -> 4
      [] p = "inject" -> 5
      [] p = "setViewport" -> 6
      [] p = "goto" -> 7
      [] p = "waitFonts" -> 8
      [] p = "measure" -> 9
      [] p = "pdf" -> 10
      [] p \in {"pageClose", "write"} -> 11
      [] p \in {"parseArgs", "validate", "read", "configure", "main"} -> 0
      [] OTHER -> 12

\* what the steps completed so far have left behind, and what the steps not
\* yet begun have not
StepsDoneInOrder ==
    LET step == StepOf(pc)
    IN  /\ step \in 2..11 => startPromise.state = "resolved"
        /\ step \in 3..11 => fetches.responded
        /\ step \in 4..11 => browser.state = "open"
        /\ step \in 5..10 => page.state = "open"
        /\ step = 11 => page.state # "none"
        /\ step \in 6..11 => page.injected # None
        /\ step \in 7..11 => page.viewport # None
        /\ step \in 8..11 => page.url # None /\ dom # None
        /\ step = 11 => pdf # None
        /\ step \in 0..2 => ~fetches.responded
        /\ step \in 0..3 => browser.state = "none"
        /\ step \in 0..4 => page.state = "none"
        /\ step \in 0..5 => page.injected = None
        /\ step \in 0..6 => page.viewport = None
        /\ step \in 0..7 => page.url = None /\ dom = None
        /\ step \in 0..9 => contentHeight = None
        /\ step \in 0..10 => pdf = None
        /\ step \in 0..10 => written = 0
        /\ browser.state # "none" => fetches.responded
        /\ page.url # None => page.injected # None
        /\ written > 0 => pdf # None

\* C17: the pipeline runs its steps strictly in the order server start,
\* reachability wait, browser acquisition, open page, register payload
\* injection, set viewport, navigate, font wait, measurement, PDF capture,
\* file write: a step begins only when the step before it has completed
\* without an error; the injection is registered before the navigation
\* starts and the browser is acquired only after the server was reachable.
C17_StepsInOrder ==
    /\ []StepsDoneInOrder
    /\ [][(StepOf(pc') \in 1..11 /\ StepOf(pc') # StepOf(pc))
            => /\ StepOf(pc') = StepOf(pc) + 1
               /\ error' = None]_vars

\* a run that went through every step and wrote the file
C17_Witness ==
    /\ pc = "finally"
    /\ written = 1
    /\ error = None
    /\ page.injected # None
    /\ page.url # None
    /\ pdf # None

\* the timeouts of the server start, of the reachability wait and of the
\* navigation
TerminalTimeouts ==
    {Some("ServerStartTimeout"), Some("ServerUnreachable"),
     Some("NavigationTimeout")}

\* C18: a font-readiness wait that times out is not fatal: it leaves a
\* warning and the run goes on to the measurement (and from there to the
\* capture and the write, and can end with exit code 0).  The timeouts of the
\* server start, of the reachability wait and of the navigation are terminal:
\* no step of the pipeline runs after them, no file is written and the exit
\* code is 1.
C18_OnlyFontTimeoutIsNonFatal ==
    /\ [][(pc = "waitFonts" /\ pc' # pc)
            => /\ pc' = "measure"
               /\ error' = None]_vars
    /\ [](error \in TerminalTimeouts
            => /\ StepOf(pc) = 12
               /\ written = 0
               /\ Ended => exitCode = Some(1))

\* a run whose font wait timed out ended with the file written and exit code 0
C18_Witness ==
    /\ Ended
    /\ fontWarning
    /\ written = 1
    /\ exitCode = Some(0)

\* C19: the URL the start promise resolves with is the first match of the URL
\* pattern in the text accumulated from stdout and stderr, without its quote
\* characters, and the promise resolves in the very step in which a chunk
\* completes the first match in the accumulated text, whichever of the two
\* streams delivered that chunk.
C19_ReadyOnFirstMatch ==
    [][/\ (startPromise.state = "pending" /\ startPromise'.state = "resolved")
            => /\ Match(output') # None
               /\ startPromise'.url = StripQuotes(Match(output')[1])
       /\ (startPromise.state = "pending" /\ Match(output) = None
             /\ Match(output') # None)
            => startPromise'.state = "resolved"]_vars

\* C20: every run ends with an exit code, whatever the interleaving of the
\* server's output, its exit (with status 0 or by a signal before any URL
\* included) and the timers: the run never waits forever, each browser call
\* settling.
C20_RunTerminates == <>(Ended /\ exitCode # None)

\* the server exited with status 0 without a URL, and the run was ended by the
\* start timer
C20_Witness ==
    /\ Ended
    /\ exitCode = Some(1)
    /\ viteChild.code = Some(0)
    /\ error = Some("ServerStartTimeout")
    /\ Match(output) = None

\* no operation has been called twice: one server process, one browser
\* acquisition, one page, one file
CalledAtMostOnce ==
    /\ \A op \in Operations : calls[op] <= 1
    /\ calls["connect"] + calls["launch"] <= 1
    /\ written <= 1
    /\ browser.closeCalls <= 1

\* C21: in a run at most one server process is spawned, at most one browser
\* is acquired, at most one page is opened and no operation of the pipeline
\* but the reachability fetch is called more than once; once an operation has
\* failed, no operation of the pipeline is called again.
C21_NoRetry ==
    /\ []CalledAtMostOnce
    /\ [][error # None => calls' = calls]_vars

\* a run whose navigation failed ended after one call of page.goto and
\* without a capture
C21_Witness ==
    /\ Ended
    /\ exitCode = Some(1)
    /\ error = Some("NavigationTimeout")
    /\ calls["spawn"] = 1
    /\ calls["newPage"] = 1
    /\ calls["goto"] = 1
    /\ calls["pdf"] = 0

\* the remote endpoint is configured: PRINTER_ENDPOINT is set and not empty
Configured ==
    /\ env[1].PRINTER_ENDPOINT # None
    /\ env[1].PRINTER_ENDPOINT[1] # ""

\* C22: the browser is acquired in exactly one of two modes: by a remote
\* connection if and only if the remote endpoint is configured, by a local
\* launch otherwise.  In remote mode the local discovery never runs and the
\* run cannot end for want of a local browser; the connect options carry
\* exactly one of the socket endpoint and the HTTP endpoint, the socket one
\* exactly when the scheme of the endpoint is ws or wss.
C22_ExactlyOneMode ==
    env # None
        => /\ calls["connect"] + calls["launch"] <= 1
           /\ (pc = "connect" \/ calls["connect"] > 0
                 \/ browser.mode = "remote" \/ connectOptions # None)
                => Configured
           /\ (pc = "launch" \/ calls["launch"] > 0 \/ browser.mode = "local")
                => ~Configured
           /\ browser.state # "none"
                => browser.mode = IF Configured THEN "remote" ELSE "local"
           /\ Configured
                => /\ calls["findSystemChrome"] = 0
                   /\ calls["console.error"] = 0
                   /\ browser.executablePath = None
                   /\ error # None \/ pc # "exited" \/ exitCode = Some(0)
           /\ ~Configured
                => /\ calls["findSystemChrome"] = 1
                   /\ connectOptions = None
           /\ connectOptions # None
                => LET o == connectOptions[1]
                       endpoint == env[1].PRINTER_ENDPOINT
                       socket == endpoint[1] \in {"ws://remote", "wss://remote"}
                   IN  /\ (o.browserWSEndpoint # None) # (o.browserURL # None)
                       /\ o.browserWSEndpoint # None <=> socket
                       /\ o.browserWSEndpoint \in {None, endpoint}
                       /\ o.browserURL \in {None, endpoint}

\* a browser connected over wss although an executable exists on disk
C22_Witness ==
    /\ browser.state = "open"
    /\ browser.mode = "remote"
    /\ env[1].PRINTER_ENDPOINT = Some("wss://remote")
    /\ env[1].CHROME_PATH = Some(ChromePathValue)
    /\ ChromePathValue \in env[1].disk
    /\ connectOptions =
         Some([browserWSEndpoint |-> Some("wss://remote"), browserURL |-> None])
    /\ calls["findSystemChrome"] = 0

\* CHROME_PATH is set, not empty, and names a file on disk
OverrideExists(e) ==
    /\ e.CHROME_PATH # None
    /\ e.CHROME_PATH[1] # ""
    /\ e.CHROME_PATH[1] \in e.disk

\* path is what the discovery has to return in e: the override if it exists,
\* else the first candidate of the platform on disk
Discovered(e, path) ==
    IF OverrideExists(e)
      THEN path = e.CHROME_PATH[1]
      ELSE \E i \in 1..Len(Candidates(e.platform)) :
              /\ Candidates(e.platform)[i] = path
              /\ path \in e.disk
              /\ \A j \in 1..(i - 1) : Candidates(e.platform)[j] \notin e.disk

\* the discovery has nothing to return in e
NothingToDiscover(e) ==
    /\ ~OverrideExists(e)
    /\ \A i \in 1..Len(Candidates(e.platform)) :
          Candidates(e.platform)[i] \notin e.disk

\* C23: the local discovery returns the override path when it is set and on
\* disk, else the first path of the platform's candidate list that is on
\* disk, else nothing.  When it returns nothing the run is fatal: the server
\* is killed, the remediation message is printed and the process exits with
\* code 1 without a browser being launched.
C23_Discovery ==
    /\ []((env # None /\ (pc = "launch" \/ browser.mode = "local"))
            => /\ ~NothingToDiscover(env[1])
               /\ browser.mode = "local"
                    => /\ browser.executablePath # None
                       /\ Discovered(env[1], browser.executablePath[1]))
    /\ []((env # None /\ ~Configured /\ NothingToDiscover(env[1]))
            => /\ Ended
               /\ exitCode = Some(1)
               /\ viteChild.kills = 1
               /\ calls["console.error"] = 1
               /\ calls["launch"] = 0
               /\ browser.state = "none")
    /\ [](calls["console.error"] > 0
            => env # None /\ ~Configured /\ NothingToDiscover(env[1]))

\* CHROME_PATH is set but not on disk: the browser launched is the first
\* candidate on disk, the third of the list
C23_Witness ==
    /\ browser.state = "open"
    /\ browser.mode = "local"
    /\ env[1].CHROME_PATH = Some(ChromePathValue)
    /\ env[1].disk = {"/usr/bin/chromium", "/snap/bin/chromium"}
    /\ browser.executablePath = Some("/usr/bin/chromium")

\* the measurement pass has been run a second time on the kept document
PassRepeated ==
    /\ pc = "pdf"
    /\ firstPass # None
    /\ firstPass[1].results # None

Settled == startPromise.state \in {"resolved", "rejected"}

\* C25: the outcome of startViteServer is fixed by the first of the events
\* ready URL found in the output, start timer fired, spawn error, exit with a
\* status other than 0; no later event changes it.  Once the URL has been
\* reported the timer is cancelled, and neither a later exit nor more output
\* makes the start fail; once the timer has fired a late URL does not make
\* the start succeed.
C25_FirstEventDecides ==
    /\ [][Settled => startPromise' = startPromise]_vars
    /\ [][(startPromise.state = "pending" /\ Settled')
            => CASE startPromise'.state = "resolved"
                      -> Match(output') # None /\ timeout' = "cleared"
                 [] startPromise'.err = "ServerStartTimeout"
                      -> timeout' = "fired"
                 [] startPromise'.err = "SpawnError"
                      -> viteChild'.state = "failed"
                 [] startPromise'.err = "ServerExitedEarly"
                      -> viteChild'.code \notin {None, Some(0)}
                 [] OTHER -> FALSE]_vars
    /\ [](startPromise.state = "resolved" => timeout = "cleared")
    /\ [](timeout = "fired"
            => /\ startPromise.state = "rejected"
               /\ startPromise.err = "ServerStartTimeout")
    /\ [][(pc = "awaitStart" /\ pc' # "awaitStart")
            => IF startPromise.state = "resolved"
                 THEN pc' = "waitForServer" /\ error' = None
                 ELSE pc' = "catch" /\ error' = Some(startPromise.err)]_vars

\* the server exited with status 1 after its URL had been reported: the start
\* is still a success and main() polls the server
C25_Witness ==
    /\ startPromise.state = "resolved"
    /\ timeout = "cleared"
    /\ viteChild.state = "exited"
    /\ viteChild.code = Some(1)
    /\ pc = "fetch"
    /\ error = None

====
